---- MODULE Spec2Model ----
(***************************************************************************)
(* Visor Inmobiliario (src/app.py): a Streamlit script that loads a        *)
(* quarterly real-estate table, filters it by geographic level, places and *)
(* year range, and renders two line charts and the raw table.              *)
(*                                                                         *)
(* Streamlit re-runs the whole script on every interaction, so every       *)
(* action below is "set one widget, then run the script top to bottom";    *)
(* the script itself is the operator RunScript.                            *)
(***************************************************************************)
EXTENDS Integers, Sequences, FiniteSets, TLC

VARIABLES
    uploaded_file,   \* the file held by st.sidebar.file_uploader (NoFile when empty)
    tipo_producto,   \* value of the st.sidebar.radio widget
    w_nivel,         \* what the user picked in the selectbox, if anything
    w_lugares,       \* what the user picked in the multiselect, if anything
    w_years,         \* what the user picked on the slider, if anything
    page             \* everything the last run of the script computed and drew

vars == <<uploaded_file, tipo_producto, w_nivel, w_lugares, w_years, page>>

(***************************************************************************)
(* Bounds of the model.                                                    *)
(***************************************************************************)
MaxRows == 2

(***************************************************************************)
(* Small helpers on sequences.                                             *)
(***************************************************************************)
Range(s) == {s[i] : i \in 1..Len(s)}

SeqsUpTo(S, n) == UNION {[1..k -> S] : k \in 0..n}

\* The order Python gives the place names used in the model (sorted() on str).
NameOrder == <<"", "Andalucia", "Barcelona", "Cataluna", "Madrid">>

Rank(name) == CHOOSE i \in 1..Len(NameOrder) : NameOrder[i] = name

\* sorted(S) for a set of place names.
RECURSIVE sorted(_)
sorted(S) ==
    IF S = {} THEN <<>>
    ELSE LET first == CHOOSE a \in S : \A b \in S : Rank(a) <= Rank(b)
         IN  <<first>> \o sorted(S \ {first})

\* s[:n]
Take(s, n) == SubSeq(s, 1, IF n < Len(s) THEN n ELSE Len(s))

\* Series.unique(): the distinct values in order of first appearance.
RECURSIVE unique(_)
unique(s) ==
    IF s = <<>> THEN <<>>
    ELSE LET init == unique(SubSeq(s, 1, Len(s) - 1))
             last == s[Len(s)]
         IN  IF last \in Range(init) THEN init ELSE Append(init, last)

(***************************************************************************)
(* Text: a string that the code formats or parses is a sequence of         *)
(* one-character strings, so that formatting and parsing are computed.     *)
(***************************************************************************)
DigitChars == <<"0", "1", "2", "3", "4", "5", "6", "7", "8", "9">>

\* int.astype(str) for a non-negative integer: decimal digits, no padding.
RECURSIVE astype_str(_)
astype_str(n) ==
    IF n < 10 THEN <<DigitChars[n + 1]>>
    ELSE astype_str(n \div 10) \o <<DigitChars[(n % 10) + 1]>>

IsDigits(cs) == cs # <<>> /\ \A i \in 1..Len(cs) : cs[i] \in Range(DigitChars)

DigitVal(c) == (CHOOSE d \in 1..10 : DigitChars[d] = c) - 1

RECURSIVE ToInt(_)
ToInt(cs) ==
    IF cs = <<>> THEN 0
    ELSE 10 * ToInt(SubSeq(cs, 1, Len(cs) - 1)) + DigitVal(cs[Len(cs)])

\* cs.split(sep)
RECURSIVE Split(_, _)
Split(cs, sep) ==
    IF \A i \in 1..Len(cs) : cs[i] # sep THEN <<cs>>
    ELSE LET k == CHOOSE i \in 1..Len(cs) :
                      cs[i] = sep /\ \A j \in 1..(i - 1) : cs[j] # sep
         IN  <<SubSeq(cs, 1, k - 1)>> \o Split(SubSeq(cs, k + 1, Len(cs)), sep)

IsLeap(y) == (y % 4 = 0 /\ y % 100 # 0) \/ y % 400 = 0

DaysInMonth(y, m) ==
    IF m = 2 THEN (IF IsLeap(y) THEN 29 ELSE 28)
    ELSE IF m \in {4, 6, 9, 11} THEN 30 ELSE 31

NoDate == [year |-> 0, month |-> 0, day |-> 0]

\* pd.to_datetime on one "Y-M-D" string: the date, or a failure when the text
\* names no calendar date (to_datetime raises for the whole column then).
to_datetime(cs) ==
    LET parts == Split(cs, "-")
    IN  IF Len(parts) # 3 \/ \E i \in 1..Len(parts) : ~IsDigits(parts[i])
        THEN [ok |-> FALSE, date |-> NoDate]
        ELSE LET y == ToInt(parts[1])
                 m == ToInt(parts[2])
                 d == ToInt(parts[3])
             IN  IF m \in 1..12 /\ d \in 1..DaysInMonth(y, m)
                 THEN [ok |-> TRUE, date |-> [year |-> y, month |-> m, day |-> d]]
                 ELSE [ok |-> FALSE, date |-> NoDate]

\* Chronological order of two dates (the order of datetime64 values).
DateBefore(a, b) ==
    \/ a.year < b.year
    \/ a.year = b.year /\ a.month < b.month
    \/ a.year = b.year /\ a.month = b.month /\ a.day < b.day

(***************************************************************************)
(* The uploaded file.  A column header is its name plus the number of      *)
(* blanks before and after it; a row holds the cells the script reads      *)
(* (ano, trim, geo, ca, prv).  The cells of the nine metric columns are    *)
(* only drawn, never read, so a file records just which of them exist.     *)
(***************************************************************************)
Header(name) == [lead |-> 0, name |-> name, trail |-> 0]

Padded(name) == [lead |-> 1, name |-> name, trail |-> 1]

\* str.strip() on a header
strip(h) == [h EXCEPT !.lead = 0, !.trail = 0]

NoFile == [name |-> "", readable |-> FALSE, headers |-> {}, rows |-> <<>>]

NoName == ""

\* Exceptions are values: raised, with the text str(e) gives.
Ok == [raised |-> FALSE, detail |-> ""]

Raise(detail) == [raised |-> TRUE, detail |-> detail]

KeyError(col) == Raise("'" \o col \o "'")

HasCol(columns, name) == Header(name) \in columns

\* Faulty variant of mes_aprox: T1 is March, but the step is one month.
mes_aprox_step_one(row) == row.trim + 2

\* df['mes_aprox'] = df['trim'] * 3
mes_aprox(row) == row.trim * 3

\* df['ano'].astype(str) + '-' + df['mes_aprox'].astype(str) + '-01'
periodo_txt(row) ==
    astype_str(row.ano) \o <<"-">> \o astype_str(mes_aprox(row)) \o <<"-", "0", "1">>

\* df['periodo_dt']
periodo_dt(row) == to_datetime(periodo_txt(row)).date

\* df['periodo_lbl'] = df['ano'].astype(str) + "-T" + df['trim'].astype(str)
periodo_lbl(row) == astype_str(row.ano) \o <<"-", "T">> \o astype_str(row.trim)

DerivedRow(row) ==
    [ano |-> row.ano, trim |-> row.trim, geo |-> row.geo, ca |-> row.ca, prv |-> row.prv,
     mes_aprox |-> mes_aprox(row), periodo_dt |-> periodo_dt(row),
     periodo_lbl |-> periodo_lbl(row)]

NoTable == [columns |-> {}, rows |-> <<>>]

\* load_data(file): the table with stripped headers and the three derived
\* columns, or the exception the body raises.
load_data(file) ==
    LET columns == {strip(h) : h \in file.headers}
    IN  IF ~file.readable
        THEN [exc |-> Raise("Error tokenizing data"), df |-> NoTable]
        ELSE IF ~HasCol(columns, "trim")
        THEN [exc |-> KeyError("trim"), df |-> NoTable]
        ELSE IF ~HasCol(columns, "ano")
        THEN [exc |-> KeyError("ano"), df |-> NoTable]
        ELSE IF \E i \in 1..Len(file.rows) : ~to_datetime(periodo_txt(file.rows[i])).ok
        THEN [exc |-> Raise("month must be in 1..12"), df |-> NoTable]
        ELSE [exc |-> Ok,
              df  |-> [columns |-> columns \cup
                                   {Header("mes_aprox"), Header("periodo_dt"),
                                    Header("periodo_lbl")},
                       rows    |-> [i \in 1..Len(file.rows) |-> DerivedRow(file.rows[i])]]]

(***************************************************************************)
(* The filter pipeline (section 2 of the script, lines 62-88).             *)
(***************************************************************************)
None == ""

\* df[df['geo'] == nivel_seleccionado]
df_nivel_of(rows, nivel) == SelectSeq(rows, LAMBDA r : r.geo = nivel)

\* Faulty variant of place_col: the first comparison never matches (a label
\* typed as 'National'), so the national level falls through to the else.
place_col_no_nacional(nivel) ==
    IF nivel = "Comunidad" THEN "ca" ELSE "prv"

\* The column the if / elif / else of lines 67-82 filters the places on.
place_col(nivel) ==
    IF nivel = "Nacional" THEN None
    ELSE IF nivel = "Comunidad" THEN "ca"
    ELSE "prv"

Cell(row, col) == IF col = "ca" THEN row.ca ELSE row.prv

\* Faulty variant of filter_places: an empty selection is read as "no filter".
filter_places_empty_is_all(df_nivel, nivel, seleccion) ==
    IF place_col(nivel) = None \/ seleccion = {} THEN df_nivel
    ELSE SelectSeq(df_nivel, LAMBDA r : Cell(r, place_col(nivel)) \in seleccion)

\* df_nivel (Nacional) or df_nivel[df_nivel[col].isin(seleccion)]
filter_places(df_nivel, nivel, seleccion) ==
    IF place_col(nivel) = None THEN df_nivel
    ELSE SelectSeq(df_nivel, LAMBDA r : Cell(r, place_col(nivel)) \in seleccion)

\* Faulty variant of filter_years: the lower end is excluded (> for >=).
filter_years_exclusive(rows, years) ==
    SelectSeq(rows, LAMBDA r : r.ano > years[1] /\ r.ano <= years[2])

\* Faulty variant of filter_years: the lower end is taken from the frame being
\* filtered (its smallest year, excluded) instead of from the slider.
filter_years_frame_min(rows, years) ==
    SelectSeq(rows, LAMBDA r : (\E i \in 1..Len(rows) : rows[i].ano < r.ano)
                               /\ r.ano <= years[2])

\* df_filtered[(df_filtered['ano'] >= years[0]) & (df_filtered['ano'] <= years[1])]
filter_years(rows, years) ==
    SelectSeq(rows, LAMBDA r : r.ano >= years[1] /\ r.ano <= years[2])

\* Lines 62-88 as one function of the table and the three selections.
filter(rows, nivel, seleccion, years) ==
    filter_years(filter_places(df_nivel_of(rows, nivel), nivel, seleccion), years)

\* The default= argument of the two multiselects.
default_lugares(nivel, lista_lugares) ==
    IF nivel = "Comunidad" THEN Take(lista_lugares, 1)
    ELSE IF "Madrid" \in Range(lista_lugares) THEN <<"Madrid", "Barcelona">>
    ELSE Take(lista_lugares, 1)

(***************************************************************************)
(* Column resolution and the colour dimension (lines 47-54, 95-105).       *)
(***************************************************************************)
RadioOptions == <<"Vivienda", "Garaje", "Trastero">>

\* Faulty variant of prefijo_map: a prefix that is not the columns' one.
prefijo_map_typo == [Vivienda |-> "viv", Garaje |-> "gar", Trastero |-> "tra"]

\* The dict literal of line 54.
prefijo_map == [Vivienda |-> "viv", Garaje |-> "gar", Trastero |-> "tras"]

col_num(prefijo) == prefijo \o "-num"

col_precio(prefijo) == prefijo \o "-imp"

col_pm2(prefijo) == prefijo \o "-pm2"

color_col(nivel) ==
    IF nivel = "Comunidad" THEN "ca"
    ELSE IF nivel = "Provincia" THEN "prv"
    ELSE None

(***************************************************************************)
(* Widgets.  A widget returns what the user last set on it when that is    *)
(* still one of its options, and its default otherwise.                    *)
(***************************************************************************)
Unset(v) == [given |-> FALSE, value |-> v]

UserSet(v) == [given |-> TRUE, value |-> v]

\* st.sidebar.selectbox(label, options, index=0); None when there is no option.
selectbox(options, w) ==
    IF options = <<>> THEN None
    ELSE IF w.given /\ w.value \in Range(options) THEN w.value
    ELSE options[1]

\* st.sidebar.multiselect raises when a default is not one of the options.
multiselect_raises(options, default) == ~(Range(default) \subseteq Range(options))

multiselect(options, default, w) ==
    IF w.given /\ w.value \subseteq Range(options) THEN w.value ELSE Range(default)

\* st.sidebar.slider(label, min_year, max_year, (min_year, max_year))
slider(lo, hi, w) ==
    IF w.given /\ lo <= w.value[1] /\ w.value[1] <= w.value[2] /\ w.value[2] <= hi
    THEN w.value
    ELSE <<lo, hi>>

(***************************************************************************)
(* What a run of the script leaves on the page.                            *)
(***************************************************************************)
\* What a tab shows; a chart draws the rows of df_filtered.
NoDraw == [kind |-> "none", y |-> "", color |-> None, rows |-> <<>>]

\* px.line(df_filtered, x='periodo_dt', y=y, color=color) + st.plotly_chart
Chart(y, color) == [kind |-> "chart", y |-> y, color |-> color, rows |-> <<>>]

\* st.warning(f"No se encontró la columna de precio m2 ({col})")
Warning(col) == [kind |-> "warning", y |-> col, color |-> None, rows |-> <<>>]

\* st.dataframe(...)
DataFrame(rows) == [kind |-> "table", y |-> "", color |-> None, rows |-> rows]

\* (ano, trim) of a comes before that of b
PeriodBefore(a, b) == a.ano < b.ano \/ (a.ano = b.ano /\ a.trim < b.trim)

\* df.sort_values(['ano', 'trim'], ascending=False)
RECURSIVE sort_values_desc(_)
sort_values_desc(rows) ==
    IF rows = <<>> THEN <<>>
    ELSE LET k == CHOOSE i \in 1..Len(rows) :
                      /\ \A j \in 1..Len(rows) : ~PeriodBefore(rows[i], rows[j])
                      /\ \A j \in 1..(i - 1) : PeriodBefore(rows[j], rows[i])
         IN  <<rows[k]>> \o
             sort_values_desc(SubSeq(rows, 1, k - 1) \o SubSeq(rows, k + 1, Len(rows)))

WaitingMsg == "Esperando archivo... Subelo en el menu de la izquierda."

GenericMsg == "Hubo un error al procesar el archivo."

BlankPage ==
    [status |-> "waiting", widgets |-> {}, info |-> <<>>, errors |-> <<>>,
     df |-> NoTable, prefijo |-> "",
     niveles_geo |-> <<>>, nivel_seleccionado |-> None,
     lista_lugares |-> <<>>, seleccion |-> {}, filtro_col |-> None,
     min_year |-> 0, max_year |-> 0, years |-> <<0, 0>>, df_filtered |-> <<>>,
     col_num |-> "", col_precio |-> "", col_pm2 |-> "", color_col |-> None,
     titulo |-> "", tab1 |-> NoDraw, tab2 |-> NoDraw, tab3 |-> NoDraw]

\* Faulty variant of Fail: the second st.error, with the detail, is missing.
Fail_no_detail(p, exc) ==
    [p EXCEPT !.status = "error", !.errors = <<GenericMsg>>]

\* The except clause (lines 145-147): two st.error calls, the second with str(e).
Fail(p, exc) ==
    [p EXCEPT !.status = "error",
              !.errors = <<GenericMsg, "Detalle del error: " \o exc.detail>>]

MinAno(rows) == CHOOSE y \in {rows[i].ano : i \in 1..Len(rows)} :
                    \A i \in 1..Len(rows) : y <= rows[i].ano

MaxAno(rows) == CHOOSE y \in {rows[i].ano : i \in 1..Len(rows)} :
                    \A i \in 1..Len(rows) : y >= rows[i].ano

\* Faulty variant of PrecioM2: no check of the column, px.line raises.
PrecioM2_unchecked(q) ==
    IF HasCol(q.df.columns, q.col_pm2)
    THEN [q EXCEPT !.tab2 = Chart(q.col_pm2, q.color_col)]
    ELSE Fail(q, Raise("Value of 'y' is not the name of a column: " \o q.col_pm2))

\* tab2 (lines 125-140): the price chart, or the warning when the frame has
\* no price-per-m2 column for the product.
PrecioM2(q) ==
    IF HasCol(q.df.columns, q.col_pm2)
    THEN [q EXCEPT !.tab2 = Chart(q.col_pm2, q.color_col)]
    ELSE [q EXCEPT !.tab2 = Warning(q.col_pm2)]

\* Section 3 of the script (lines 95-143): columns, colour, the three tabs.
\* px.line raises when y or color names no column of the frame.
Visualizacion(p, tipo) ==
    LET c_num == col_num(p.prefijo)
        color == color_col(p.nivel_seleccionado)
        q == [p EXCEPT !.col_num = c_num, !.col_precio = col_precio(p.prefijo),
                       !.col_pm2 = col_pm2(p.prefijo), !.color_col = color,
                       !.titulo = "Evolucion de " \o tipo \o "s ("
                                  \o p.nivel_seleccionado \o ")"]
    IN  IF ~HasCol(p.df.columns, c_num)
        THEN Fail(q, Raise("Value of 'y' is not the name of a column: " \o c_num))
        ELSE IF color # None /\ ~HasCol(p.df.columns, color)
        THEN Fail(q, Raise("Value of 'color' is not the name of a column: " \o color))
        ELSE LET q2 == PrecioM2([q EXCEPT !.tab1 = Chart(c_num, color)])
             IN  IF q2.status = "error" THEN q2
                 ELSE [q2 EXCEPT !.tab3 = DataFrame(sort_values_desc(p.df_filtered)),
                                 !.status = "done"]

\* Lines 85-88, then section 3.
RangoDeFechas(p, lugares_filtered, tipo, wy) ==
    IF p.df.rows = <<>>
    THEN Fail(p, Raise("cannot convert float NaN to integer"))
    ELSE LET lo == MinAno(p.df.rows)
             hi == MaxAno(p.df.rows)
             years == slider(lo, hi, wy)
         IN  Visualizacion(
                 [p EXCEPT !.widgets = @ \cup {"slider"},
                           !.min_year = lo, !.max_year = hi, !.years = years,
                           !.df_filtered = filter_years(lugares_filtered, years)],
                 tipo)

\* Lines 62-82: the level's rows, then the place selector of the level.
SelectorDeLugar(p, tipo, wl, wy) ==
    LET nivel == p.nivel_seleccionado
        df_nivel == df_nivel_of(p.df.rows, nivel)
        col == place_col(nivel)
    IN  IF col = None
        THEN RangoDeFechas([p EXCEPT !.info = <<"Mostrando datos Nacionales">>],
                           filter_places(df_nivel, nivel, {}), tipo, wy)
        ELSE IF ~HasCol(p.df.columns, col)
        THEN Fail(p, KeyError(col))
        ELSE LET lista_lugares ==
                     sorted({Cell(df_nivel[i], col) : i \in 1..Len(df_nivel)})
                 default == default_lugares(nivel, lista_lugares)
                 seleccion == multiselect(lista_lugares, default, wl)
                 q == [p EXCEPT !.lista_lugares = lista_lugares, !.filtro_col = col]
             IN  IF multiselect_raises(lista_lugares, default)
                 THEN Fail(q, Raise("Every Multiselect default value must exist in options"))
                 ELSE RangoDeFechas(
                          [q EXCEPT !.widgets = @ \cup {"multiselect"},
                                    !.seleccion = seleccion],
                          filter_places(df_nivel, nivel, seleccion), tipo, wy)

\* Lines 47-59: the product radio, the prefix lookup, the level selectbox.
BarraLateral(df, tipo, wn, wl, wy) ==
    LET p == [BlankPage EXCEPT !.status = "running", !.df = df, !.widgets = {"radio"}]
    IN  IF tipo \notin DOMAIN prefijo_map
        THEN Fail(p, KeyError(tipo))
        ELSE IF ~HasCol(df.columns, "geo")
        THEN Fail([p EXCEPT !.prefijo = prefijo_map[tipo]], KeyError("geo"))
        ELSE LET niveles_geo == unique([i \in 1..Len(df.rows) |-> df.rows[i].geo])
             IN  SelectorDeLugar(
                     [p EXCEPT !.prefijo = prefijo_map[tipo],
                               !.widgets = @ \cup {"selectbox"},
                               !.niveles_geo = niveles_geo,
                               !.nivel_seleccionado = selectbox(niveles_geo, wn)],
                     tipo, wl, wy)

\* One run of the script, top to bottom (lines 41-150).
RunScript(file, tipo, wn, wl, wy) ==
    IF file = NoFile
    THEN [BlankPage EXCEPT !.info = <<WaitingMsg>>]
    ELSE LET loaded == load_data(file)
         IN  IF loaded.exc.raised
             THEN Fail(BlankPage, loaded.exc)
             ELSE BarraLateral(loaded.df, tipo, wn, wl, wy)

(***************************************************************************)
(* The files the model uploads.                                            *)
(***************************************************************************)
Years == {2007, 2008}

Quarters == 1..4

\* trim cells outside 1..4, as a malformed file may hold
BadQuarters == {0, 5}

Prefijos == {"viv", "gar", "tras"}

ReadColumns == {"ano", "trim", "geo", "ca", "prv"}

MetricColumns == UNION {{pf \o "-num", pf \o "-imp", pf \o "-pm2"} : pf \in Prefijos}

AllHeaders == {Header(c) : c \in ReadColumns \cup MetricColumns}

\* the same headers as a hand-edited spreadsheet may hold them: blanks around
PaddedHeaders == {Padded(c) : c \in ReadColumns \cup MetricColumns}

Without(headers, cols) == {h \in headers : h.name \notin cols}

Nacional == <<"Nacional", NoName, NoName>>

\* (geo, ca, prv) of the rows: the national series, a region, two provinces,
\* and a level whose label is none of the three the script names.
Lugares ==
    {Nacional,
     <<"Comunidad", "Andalucia", NoName>>,
     <<"Provincia", "Cataluna", "Barcelona">>,
     <<"Provincia", "Madrid", "Madrid">>,
     <<"Municipio", "Cataluna", "Barcelona">>}

Row(ano, trim, lugar) ==
    [ano |-> ano, trim |-> trim, geo |-> lugar[1], ca |-> lugar[2], prv |-> lugar[3]]

File(name, readable, headers, rows) ==
    [name |-> name, readable |-> readable, headers |-> headers, rows |-> rows]

\* Well-formed files with rows at every level (fourth-quarter observations)
\* and, as the script expects of some datasets, no price-per-m2 for garages.
GeoRows == {Row(y, 4, l) : y \in Years, l \in Lugares}

GeoFiles ==
    {File("datos.csv", TRUE, Without(AllHeaders, {"gar-pm2"}), rows) :
        rows \in SeqsUpTo(GeoRows, MaxRows)}

\* Files of national rows of every year and quarter, valid or not, with
\* padded headers or with a column missing, and a file that cannot be read.
PeriodRows == {Row(y, q, Nacional) : y \in Years, q \in Quarters \cup BadQuarters}

PeriodFiles ==
    {File("datos.xlsx", TRUE, h, rows) :
        h \in {PaddedHeaders,
               Without(AllHeaders, {"ano"}), Without(AllHeaders, {"trim"}),
               Without(AllHeaders, {"geo"}), Without(AllHeaders, {"tras-num"})},
        rows \in SeqsUpTo(PeriodRows, MaxRows)}
    \cup {File("datos.csv", FALSE, {}, <<>>)}

(***************************************************************************)
(* State machine: one action per user interaction, each followed by the    *)
(* re-run of the script that Streamlit triggers.                           *)
(***************************************************************************)
Init ==
    /\ uploaded_file = NoFile
    /\ tipo_producto = RadioOptions[1]
    /\ w_nivel = Unset(None)
    /\ w_lugares = Unset({})
    /\ w_years = Unset(<<0, 0>>)
    /\ page = RunScript(NoFile, RadioOptions[1], Unset(None), Unset({}), Unset(<<0, 0>>))

\* The user puts one of `files` in the empty uploader (replacing a file is
\* clearing it and uploading another): the data-driven widgets start from
\* their defaults.
Upload(files) ==
    /\ uploaded_file = NoFile
    /\ \E f \in files :
        /\ uploaded_file' = f
        /\ page' = RunScript(f, tipo_producto, Unset(None), Unset({}), Unset(<<0, 0>>))
    /\ w_nivel' = Unset(None)
    /\ w_lugares' = Unset({})
    /\ w_years' = Unset(<<0, 0>>)
    /\ UNCHANGED tipo_producto

\* The user clears the uploader.
RemoveFile ==
    /\ uploaded_file # NoFile
    /\ uploaded_file' = NoFile
    /\ w_nivel' = Unset(None)
    /\ w_lugares' = Unset({})
    /\ w_years' = Unset(<<0, 0>>)
    /\ page' = RunScript(NoFile, tipo_producto, Unset(None), Unset({}), Unset(<<0, 0>>))
    /\ UNCHANGED tipo_producto

\* A re-run with the same file: @st.cache_data hands load_data's earlier
\* result back without running its body again.
Rerun(tipo, wn, wl, wy) ==
    IF page.df # NoTable
    THEN BarraLateral(page.df, tipo, wn, wl, wy)
    ELSE RunScript(uploaded_file, tipo, wn, wl, wy)

ChooseProduct(t) ==
    /\ "radio" \in page.widgets
    /\ tipo_producto' = t
    /\ page' = Rerun(t, w_nivel, w_lugares, w_years)
    /\ UNCHANGED <<uploaded_file, w_nivel, w_lugares, w_years>>

\* Another level brings another multiselect, which starts from its default.
ChooseLevel(l) ==
    /\ "selectbox" \in page.widgets
    /\ l \in Range(page.niveles_geo)
    /\ w_nivel' = UserSet(l)
    /\ w_lugares' = IF l = page.nivel_seleccionado THEN w_lugares ELSE Unset({})
    /\ page' = Rerun(tipo_producto, w_nivel', w_lugares', w_years)
    /\ UNCHANGED <<uploaded_file, tipo_producto, w_years>>

ChoosePlaces(S) ==
    /\ "multiselect" \in page.widgets
    /\ S \subseteq Range(page.lista_lugares)
    /\ w_lugares' = UserSet(S)
    /\ page' = Rerun(tipo_producto, w_nivel, w_lugares', w_years)
    /\ UNCHANGED <<uploaded_file, tipo_producto, w_nivel, w_years>>

ChooseYears(lo, hi) ==
    /\ "slider" \in page.widgets
    /\ page.min_year <= lo /\ lo <= hi /\ hi <= page.max_year
    /\ w_years' = UserSet(<<lo, hi>>)
    /\ page' = Rerun(tipo_producto, w_nivel, w_lugares, w_years')
    /\ UNCHANGED <<uploaded_file, tipo_producto, w_nivel, w_lugares>>

\* The dashboard on well-formed files of every level.
Next ==
    \/ Upload(GeoFiles)
    \/ RemoveFile
    \/ \E t \in Range(RadioOptions) : ChooseProduct(t)
    \/ \E l \in Range(page.niveles_geo) : ChooseLevel(l)
    \/ \E S \in SUBSET Range(page.lista_lugares) : ChoosePlaces(S)
    \/ \E lo \in Years, hi \in Years : ChooseYears(lo, hi)

Spec == Init /\ [][Next]_vars

\* The dashboard on national files, malformed ones included.
NextLoad ==
    \/ Upload(PeriodFiles)
    \/ RemoveFile
    \/ \E t \in Range(RadioOptions) : ChooseProduct(t)
    \/ \E l \in Range(page.niveles_geo) : ChooseLevel(l)
    \/ \E lo \in Years, hi \in Years : ChooseYears(lo, hi)

SpecLoad == Init /\ [][NextLoad]_vars

(***************************************************************************)
(* Properties.                                                             *)
(***************************************************************************)
Done == page.status = "done"

PlaceNames == {l[2] : l \in Lugares} \cup {l[3] : l \in Lugares}

InRange(row, years) == years[1] <= row.ano /\ row.ano <= years[2]

\* The rows that passed the level and place filter of the last run.
PlaceFiltered ==
    filter_places(df_nivel_of(page.df.rows, page.nivel_seleccionado),
                  page.nivel_seleccionado, page.seleccion)

\* C1: at the national level the filtered table is exactly the national rows
\* within the year range, whatever set of places is handed to the filter.
C1_NationalIgnoresPlaces ==
    (Done /\ page.nivel_seleccionado = "Nacional") =>
        /\ page.df_filtered =
               SelectSeq(page.df.rows,
                         LAMBDA r : r.geo = "Nacional" /\ InRange(r, page.years))
        /\ \A S \in SUBSET PlaceNames :
               filter(page.df.rows, "Nacional", S, page.years) = page.df_filtered

C1_Witness ==
    /\ Done /\ page.nivel_seleccionado = "Nacional"
    /\ page.df_filtered # <<>>
    /\ \E i \in 1..Len(page.df.rows) : page.df.rows[i].prv = "Madrid"

\* C2: at the Comunidad or Provincia level, once the user has emptied the
\* place selection, the filtered table has zero rows and the run goes on to
\* the charts as with any other table: it ends normally, with an empty raw
\* table (the count column of the product being there to chart).  The filter
\* gives zero rows for every year range.
C2_EmptyPlacesGiveNoRows ==
    (/\ page.nivel_seleccionado \in {"Comunidad", "Provincia"}
     /\ w_lugares = UserSet({})) =>
        /\ page.seleccion = {}
        /\ page.df_filtered = <<>>
        /\ page.col_num # ""
        /\ HasCol(page.df.columns, page.col_num) =>
               /\ Done
               /\ page.errors = <<>>
               /\ page.tab1.kind = "chart"
               /\ page.tab3 = DataFrame(<<>>)
        /\ \A lo \in Years, hi \in Years :
               filter(page.df.rows, page.nivel_seleccionado, {}, <<lo, hi>>) = <<>>

C2_Witness ==
    /\ Done /\ page.nivel_seleccionado = "Provincia"
    /\ w_lugares = UserSet({})
    /\ Len(df_nivel_of(page.df.rows, "Provincia")) = MaxRows
    /\ page.df_filtered = <<>>

\* C3: of the rows that passed the level and place filter, exactly those with
\* years[0] <= ano <= years[1] are kept: a row on either end of the range is
\* kept, a row one year outside it is not.
C3_YearRangeInclusive ==
    Done =>
        /\ Range(page.df_filtered) \subseteq Range(PlaceFiltered)
        /\ \A i \in 1..Len(PlaceFiltered) :
            LET r == PlaceFiltered[i]
                kept == r \in Range(page.df_filtered)
            IN  /\ kept <=> (page.years[1] <= r.ano /\ r.ano <= page.years[2])
                /\ (r.ano = page.years[1] \/ r.ano = page.years[2]) => kept
                /\ (r.ano = page.years[1] - 1 \/ r.ano = page.years[2] + 1) => ~kept

C3_Witness ==
    /\ Done
    /\ page.years[1] = page.years[2]
    /\ \E i, j \in 1..Len(PlaceFiltered) :
        /\ PlaceFiltered[i].ano = page.years[1]
        /\ PlaceFiltered[i] \in Range(page.df_filtered)
        /\ PlaceFiltered[j].ano = page.years[1] - 1
        /\ PlaceFiltered[j] \notin Range(page.df_filtered)

\* C4: the filtered table of a run is the filter applied to the loaded table,
\* and applying the filter with the same selection to it again changes nothing.
C4_FilterIdempotent ==
    Done =>
        /\ page.df_filtered =
               filter(page.df.rows, page.nivel_seleccionado, page.seleccion, page.years)
        /\ filter(page.df_filtered, page.nivel_seleccionado, page.seleccion, page.years)
               = page.df_filtered

C4_Witness ==
    /\ Done
    /\ page.df_filtered # <<>>
    /\ Len(page.df_filtered) < Len(page.df.rows)
    /\ page.seleccion # {}

\* C5: in a loaded table every periodo_dt is the first day of month trim * 3
\* of year ano, and for any two rows the order and the equality of the dates
\* are those of the (ano, trim) pairs.
C5_PeriodDateMonotonic ==
    \A i, j \in 1..Len(page.df.rows) :
        LET a == page.df.rows[i]
            b == page.df.rows[j]
        IN  /\ a.periodo_dt = [year |-> a.ano, month |-> a.trim * 3, day |-> 1]
            /\ PeriodBefore(a, b) <=> DateBefore(a.periodo_dt, b.periodo_dt)
            /\ (a.ano = b.ano /\ a.trim = b.trim) <=> (a.periodo_dt = b.periodo_dt)

C5_Witness ==
    \E i, j \in 1..Len(page.df.rows) :
        /\ page.df.rows[i].ano < page.df.rows[j].ano
        /\ page.df.rows[i].trim = 4
        /\ page.df.rows[j].trim = 1
        /\ DateBefore(page.df.rows[i].periodo_dt, page.df.rows[j].periodo_dt)

ExpectedColumns ==
    [Vivienda |-> <<"viv-num", "viv-imp", "viv-pm2">>,
     Garaje   |-> <<"gar-num", "gar-imp", "gar-pm2">>,
     Trastero |-> <<"tras-num", "tras-imp", "tras-pm2">>]

\* C6: every product the radio offers has a prefix, so the lookup never
\* raises, and the three column names are those of the product: for each
\* product, and in every run that got as far as naming its columns.
C6_ColumnResolution ==
    /\ Range(RadioOptions) = DOMAIN prefijo_map
    /\ tipo_producto \in Range(RadioOptions)
    /\ \A t \in Range(RadioOptions) :
           <<col_num(prefijo_map[t]), col_precio(prefijo_map[t]), col_pm2(prefijo_map[t])>>
               = ExpectedColumns[t]
    /\ "radio" \in page.widgets =>
           page.errors # <<GenericMsg, "Detalle del error: " \o KeyError(tipo_producto).detail>>
    /\ page.col_num # "" =>
           <<page.col_num, page.col_precio, page.col_pm2>> = ExpectedColumns[tipo_producto]

C6_Witness ==
    /\ Done
    /\ tipo_producto = "Trastero"
    /\ page.col_pm2 = "tras-pm2"

\* The run got through loading and filtering, to section 3 of the script.
ReachesCharts == page.col_num # ""

\* C7: in a run that gets as far as the charts, when the table has the count
\* column of the selected product but not its price-per-m2 column, the volume
\* chart and the raw table are drawn, the price chart is replaced by the
\* warning, and the run does not end in the error state.
C7_MissingPm2Degrades ==
    (/\ ReachesCharts
     /\ HasCol(page.df.columns, col_num(prefijo_map[tipo_producto]))
     /\ ~HasCol(page.df.columns, col_pm2(prefijo_map[tipo_producto]))) =>
        /\ Done
        /\ page.errors = <<>>
        /\ page.tab1 = Chart(col_num(prefijo_map[tipo_producto]), page.color_col)
        /\ page.tab2 = Warning(col_pm2(prefijo_map[tipo_producto]))
        /\ page.tab3 = DataFrame(sort_values_desc(page.df_filtered))

C7_Witness ==
    /\ Done
    /\ tipo_producto = "Garaje"
    /\ page.tab1 = Chart("gar-num", "prv")
    /\ page.tab2 = Warning("gar-pm2")
    /\ page.tab3.kind = "table" /\ Len(page.tab3.rows) = MaxRows

\* C8: at the Provincia level the default of the multiselect is whichever of
\* Madrid and Barcelona the table has, else the first place name; it is always
\* a subset of the options, so the multiselect is drawn.
C8_ProvinceDefault ==
    (page.nivel_seleccionado = "Provincia" /\ page.filtro_col = "prv") =>
        LET options == Range(page.lista_lugares)
            preferred == {"Madrid", "Barcelona"} \cap options
            default == Range(default_lugares("Provincia", page.lista_lugares))
        IN  /\ preferred # {} => default = preferred
            /\ preferred = {} => default = Range(Take(page.lista_lugares, 1))
            /\ default \subseteq options
            /\ "multiselect" \in page.widgets

\* The exception detail of a file that cannot be loaded or has no geo column;
\* "" for a file the script gets past line 58 with.
LoadFailure(file) ==
    IF load_data(file).exc.raised THEN load_data(file).exc.detail
    ELSE IF ~HasCol({strip(h) : h \in file.headers}, "geo") THEN KeyError("geo").detail
    ELSE ""

\* C9: while the uploaded file cannot be read, lacks ano, trim or geo, or
\* holds a quarter that gives no date, every run ends in the error state with
\* the two messages, the second carrying the exception detail, and draws no
\* chart, no table and no filter widget.
C9_LoadFailureIsTerminal ==
    (uploaded_file # NoFile /\ LoadFailure(uploaded_file) # "") =>
        /\ page.status = "error"
        /\ page.errors =
               <<GenericMsg, "Detalle del error: " \o LoadFailure(uploaded_file)>>
        /\ page.tab1 = NoDraw /\ page.tab2 = NoDraw /\ page.tab3 = NoDraw
        /\ page.widgets \subseteq {"radio"}

C9_Witness ==
    /\ page.status = "error"
    /\ \E i \in 1..Len(uploaded_file.rows) : uploaded_file.rows[i].trim = 5
    /\ page.errors[2] = "Detalle del error: month must be in 1..12"
    /\ page.tab1 = NoDraw

\* C10: in every run the column the places are filtered on is the column the
\* charts are grouped by: ca at Comunidad, prv at Provincia, none at Nacional,
\* and the same for any other level the table names.
C10_FilterKeyIsColorColumn ==
    Done =>
        /\ page.filtro_col = page.color_col
        /\ page.nivel_seleccionado = "Comunidad" => page.color_col = "ca"
        /\ page.nivel_seleccionado = "Provincia" => page.color_col = "prv"
        /\ page.nivel_seleccionado = "Nacional" => page.color_col = None

====
